---------------------------- MODULE Spec2Model ----------------------------
(***************************************************************************)
(* A model of simple_dsl.py: the English-word arithmetic DSL.              *)
(*                                                                         *)
(*   tokenize_expr  text -> tokens            (regex tokenizer)            *)
(*   to_rpn         tokens -> postfix tokens  (shunting-yard)              *)
(*   eval_rpn       postfix tokens -> value   (stack machine)              *)
(*   run_dsl        program -> environment    (statement runner)           *)
(*                                                                         *)
(* Text is a sequence of one-character strings; names and token payloads   *)
(* are strings.  A numeric value is an exact rational n/d tagged with its  *)
(* Python type (int or float); a float that is not rational (a fractional  *)
(* power) is the value Irr.  An exception is a record [type, msg, arg].    *)
(***************************************************************************)
EXTENDS Integers, Sequences, FiniteSets, TLC

VARIABLES
    \* ---- run_dsl -------------------------------------------------------
    env,        \* run_dsl's env: name -> value
    output,     \* what print() has written, in order
    lineno,     \* number of lines consumed so far
    status,     \* "running", "returned" or "raised"
    raised,     \* the exception run_dsl raised (NoErr while none)
    line,       \* history: the raw line consumed by the last iteration
    prevEnv,    \* history: env before the last iteration
    log,        \* history: <<name, value>> of every store into env
    \* ---- to_rpn / eval_rpn ---------------------------------------------
    tokens,     \* the tokens to_rpn's loop has consumed so far
    out,        \* to_rpn's out
    stack,      \* to_rpn's stack
    pc,         \* "rpn", "eval", "done"; "rpn_raised", "eval_raised"
    rpos,       \* number of RPN tokens eval_rpn has consumed
    st,         \* eval_rpn's st
    app,        \* history: the last operator application of eval_rpn
    exc         \* the exception to_rpn / eval_rpn raised (NoErr while none)

runVars  == <<env, output, lineno, status, raised, line, prevEnv, log>>
exprVars == <<tokens, out, stack, pc, rpos, st, app, exc>>
vars     == <<env, output, lineno, status, raised, line, prevEnv, log,
              tokens, out, stack, pc, rpos, st, app, exc>>

-----------------------------------------------------------------------------
(* Bounds of the model                                                     *)

\* lines one run_dsl call consumes
MaxLines == 3
\* tokens of an arbitrary token sequence given to to_rpn
MaxTokens == 5
\* tokens of an infix expression given to to_rpn
MaxInfix == 7

-----------------------------------------------------------------------------
(* Exceptions                                                              *)

Err(type, msg, arg) == [type |-> type, msg |-> msg, arg |-> arg]
NoErr == Err("", "", "")

-----------------------------------------------------------------------------
(* 1) Vocabulary                                                           *)

NUM_WORDS ==
    [zero |-> 0, one |-> 1, two |-> 2, three |-> 3, four |-> 4,
     five |-> 5, six |-> 6, seven |-> 7, eight |-> 8, nine |-> 9,
     ten |-> 10, eleven |-> 11, twelve |-> 12, thirteen |-> 13,
     fourteen |-> 14, fifteen |-> 15, sixteen |-> 16, seventeen |-> 17,
     eighteen |-> 18, nineteen |-> 19, twenty |-> 20]

OP_WORDS ==
    [plus |-> "+", minus |-> "-", times |-> "*", divided_by |-> "/",
     power |-> "**"]

PRECEDENCE ==
    [op \in {"**", "*", "/", "+", "-"} |->
        CASE op = "**" -> <<4, "right">>
          [] op = "*"  -> <<3, "left">>
          [] op = "/"  -> <<3, "left">>
          [] op = "+"  -> <<2, "left">>
          [] op = "-"  -> <<2, "left">>]

-----------------------------------------------------------------------------
(* Characters and strings                                                  *)

UpperChars == <<"A","B","C","D","E","F","G","H","I","J","K","L","M",
                "N","O","P","Q","R","S","T","U","V","W","X","Y","Z">>
LowerChars == <<"a","b","c","d","e","f","g","h","i","j","k","l","m",
                "n","o","p","q","r","s","t","u","v","w","x","y","z">>
DigitChars == <<"0","1","2","3","4","5","6","7","8","9">>

Range(s) == {s[i] : i \in DOMAIN s}

\* \s of the regex, and what str.strip() removes
IsSpace(c) == c \in {" ", "\t", "\r", "\f"}
\* [A-Za-z_]
IsIdStart(c) == c \in Range(UpperChars) \cup Range(LowerChars) \cup {"_"}
\* [A-Za-z_0-9]
IsIdChar(c) == IsIdStart(c) \/ c \in Range(DigitChars)

\* str.lower() on one character
LowerChar(c) ==
    IF c \in Range(UpperChars)
    THEN LowerChars[CHOOSE i \in DOMAIN UpperChars : UpperChars[i] = c]
    ELSE c

\* str.lower() on text
lower(s) == [i \in DOMAIN s |-> LowerChar(s[i])]

\* the string a text spells
RECURSIVE Join(_)
Join(cs) == IF cs = <<>> THEN "" ELSE Head(cs) \o Join(Tail(cs))

\* str(n) for n >= 0
RECURSIVE str(_)
str(n) ==
    IF n < 10 THEN DigitChars[n + 1]
    ELSE str(n \div 10) \o DigitChars[(n % 10) + 1]

\* int(s) for the decimal strings str produces
int(s) == CHOOSE n \in 0..99 : str(n) = s

\* s[i:] and s[:i] with Python's 0-based i
From(s, i) == SubSeq(s, i + 1, Len(s))
Upto(s, i) == SubSeq(s, 1, i)

\* str.strip()
RECURSIVE lstrip(_)
lstrip(s) == IF s # <<>> /\ IsSpace(Head(s)) THEN lstrip(Tail(s)) ELSE s
RECURSIVE rstrip(_)
rstrip(s) ==
    IF s # <<>> /\ IsSpace(s[Len(s)]) THEN rstrip(Upto(s, Len(s) - 1)) ELSE s
strip(s) == rstrip(lstrip(s))

\* str.startswith(prefix)
startswith(s, prefix) ==
    Len(s) >= Len(prefix) /\ Upto(s, Len(prefix)) = prefix

\* re.fullmatch(r"[A-Za-z_][A-Za-z_0-9]*", s)
IsIdentifier(s) ==
    /\ s # <<>>
    /\ IsIdStart(s[1])
    /\ \A i \in 2..Len(s) : IsIdChar(s[i])

\* the 1-based index of the first "=" in s, 0 when there is none
FirstEq(s) ==
    IF \E i \in DOMAIN s : s[i] = "="
    THEN CHOOSE i \in DOMAIN s : s[i] = "=" /\ \A j \in 1..(i - 1) : s[j] # "="
    ELSE 0

-----------------------------------------------------------------------------
(* 2) Tokenizer                                                            *)

Token(kind, value) == [kind |-> kind, value |-> value]

\* the end (1-based, exclusive) of the longest run from i whose characters
\* satisfy the class: the greedy \s+ and [A-Za-z_0-9]*
RECURSIVE SpaceEnd(_, _)
SpaceEnd(s, i) ==
    IF i <= Len(s) /\ IsSpace(s[i]) THEN SpaceEnd(s, i + 1) ELSE i
RECURSIVE IdEnd(_, _)
IdEnd(s, i) ==
    IF i <= Len(s) /\ IsIdChar(s[i]) THEN IdEnd(s, i + 1) ELSE i

\* WordToken that looks the word up as written, without lower()
WordTokenExactCase(text) ==
    LET w == Join(text) IN
    IF w \in DOMAIN NUM_WORDS THEN Token("NUM", str(NUM_WORDS[w]))
    ELSE IF w \in DOMAIN OP_WORDS THEN Token("OP", OP_WORDS[w])
    ELSE Token("ID", Join(text))

\* the token an ID match becomes
WordToken(text) ==
    LET w == Join(lower(text)) IN
    IF w \in DOMAIN NUM_WORDS THEN Token("NUM", str(NUM_WORDS[w]))
    ELSE IF w \in DOMAIN OP_WORDS THEN Token("OP", OP_WORDS[w])
    ELSE Token("ID", Join(text))

\* the while loop of tokenize_expr from position i (1-based)
RECURSIVE TokenizeFrom(_, _, _)
TokenizeFrom(expr, i, toks) ==
    IF i > Len(expr) THEN [tokens |-> toks, err |-> NoErr]
    ELSE LET c == expr[i] IN
         IF IsSpace(c) THEN TokenizeFrom(expr, SpaceEnd(expr, i), toks)
         ELSE IF c = "(" THEN
            TokenizeFrom(expr, i + 1, Append(toks, Token("LPAREN", "(")))
         ELSE IF c = ")" THEN
            TokenizeFrom(expr, i + 1, Append(toks, Token("RPAREN", ")")))
         ELSE IF c = "=" THEN
            TokenizeFrom(expr, i + 1, Append(toks, Token("EQ", "=")))
         ELSE IF IsIdStart(c) THEN
            LET e == IdEnd(expr, i) IN
            TokenizeFrom(expr, e,
                         Append(toks, WordToken(SubSeq(expr, i, e - 1))))
         ELSE [tokens |-> toks,
               err |-> Err("SyntaxError", "Unexpected character", c)]

tokenize_expr(expr) == TokenizeFrom(expr, 1, <<>>)

-----------------------------------------------------------------------------
(* Numeric values: Python int and float                                    *)
(*                                                                         *)
(* [int, n, d] is the rational n/d in lowest terms with d > 0; int tells   *)
(* whether Python holds it as an int (then d = 1) or as a float.  Floats    *)
(* are taken as exact rationals.  Irr (d = 0) is a float that is not one:  *)
(* the result of a fractional power.                                       *)

Abs(n) == IF n < 0 THEN -n ELSE n

RECURSIVE Gcd(_, _)
Gcd(a, b) == IF b = 0 THEN a ELSE Gcd(b, a % b)

PyInt(n) == [int |-> TRUE, n |-> n, d |-> 1]

PyFloat(n, d) ==
    LET g == Gcd(Abs(n), Abs(d))
        s == IF d < 0 THEN -1 ELSE 1
    IN  [int |-> FALSE, n |-> (s * n) \div g, d |-> (s * d) \div g]

Irr == [int |-> FALSE, n |-> 0, d |-> 0]

IsExact(v) == v.d # 0
IsZero(v) == IsExact(v) /\ v.n = 0
\* the value is a whole number, whatever its Python type
IsIntegral(v) == v.d = 1

\* an int when both operands are ints, a float otherwise
Num(isint, n, d) == IF isint THEN PyInt(n \div d) ELSE PyFloat(n, d)

RECURSIVE IPow(_, _)
IPow(x, e) == IF e = 0 THEN 1 ELSE x * IPow(x, e - 1)

Val(v) == [val |-> v, err |-> NoErr]
Raise(e) == [val |-> PyInt(0), err |-> e]

\* Power computed in floating point whatever the operands
PowerFloat(a, b) ==
    IF ~IsExact(a) \/ ~IsExact(b) \/ b.d # 1 THEN Val(Irr)
    ELSE IF b.n >= 0
    THEN Val(PyFloat(IPow(a.n, b.n), IPow(a.d, b.n)))
    ELSE IF a.n = 0
    THEN Raise(Err("ZeroDivisionError",
                   "0.0 cannot be raised to a negative power", ""))
    ELSE Val(PyFloat(IPow(a.d, -b.n), IPow(a.n, -b.n)))

\* a ** b
Power(a, b) ==
    IF ~IsExact(a) \/ ~IsExact(b) THEN Val(Irr)
    ELSE IF b.d = 1 THEN
        \* a whole exponent
        IF b.n >= 0
        THEN Val(Num(a.int /\ b.int, IPow(a.n, b.n), IPow(a.d, b.n)))
        ELSE IF a.n = 0
        THEN Raise(Err("ZeroDivisionError",
                       "0.0 cannot be raised to a negative power", ""))
        ELSE Val(PyFloat(IPow(a.d, -b.n), IPow(a.n, -b.n)))
    ELSE
        \* a fractional exponent
        IF a.n = 0 THEN
            IF b.n > 0 THEN Val(PyFloat(0, 1))
            ELSE Raise(Err("ZeroDivisionError",
                           "0.0 cannot be raised to a negative power", ""))
        ELSE IF a.n = a.d THEN Val(PyFloat(1, 1))
        ELSE Val(Irr)

\* the operator dispatch of eval_rpn: a <op> b
Apply(op, a, b) ==
    LET both == a.int /\ b.int
        exact == IsExact(a) /\ IsExact(b)
    IN
    IF op = "+" THEN
        IF exact THEN Val(Num(both, a.n * b.d + b.n * a.d, a.d * b.d))
        ELSE Val(Irr)
    ELSE IF op = "-" THEN
        IF exact THEN Val(Num(both, a.n * b.d - b.n * a.d, a.d * b.d))
        ELSE Val(Irr)
    ELSE IF op = "*" THEN
        IF exact THEN Val(Num(both, a.n * b.n, a.d * b.d))
        ELSE Val(Irr)
    ELSE IF op = "/" THEN
        IF IsZero(b) THEN Raise(Err("ZeroDivisionError", "division by zero", ""))
        ELSE IF exact THEN Val(PyFloat(a.n * b.d, a.d * b.n))
        ELSE Val(Irr)
    ELSE IF op = "**" THEN Power(a, b)
    ELSE Raise(Err("SyntaxError", "Unknown operator", op))

-----------------------------------------------------------------------------
(* 3) Parser: shunting-yard to RPN                                         *)

Top(s) == s[Len(s)]
Pop(s) == SubSeq(s, 1, Len(s) - 1)

\* ShouldPop with the associativity ignored: every operator pops its equals
ShouldPopIgnoreAssoc(op, top) == PRECEDENCE[op][1] <= PRECEDENCE[top][1]

\* the pop condition of an incoming operator op against the stack's top
ShouldPop(op, top) ==
    LET p1 == PRECEDENCE[op][1]
        assoc1 == PRECEDENCE[op][2]
        p2 == PRECEDENCE[top][1]
    IN  (assoc1 = "left" /\ p1 <= p2) \/ (assoc1 = "right" /\ p1 < p2)

\* PopOps that pops the stack without emitting what it pops
RECURSIVE PopOpsDrop(_, _, _)
PopOpsDrop(op, o, s) ==
    IF s # <<>> /\ Top(s).kind = "OP" /\ ShouldPop(op, Top(s).value)
    THEN PopOpsDrop(op, o, Pop(s))
    ELSE [out |-> o, stack |-> s]

\* the while loop of the OP branch
RECURSIVE PopOps(_, _, _)
PopOps(op, o, s) ==
    IF s # <<>> /\ Top(s).kind = "OP" /\ ShouldPop(op, Top(s).value)
    THEN PopOps(op, Append(o, Top(s)), Pop(s))
    ELSE [out |-> o, stack |-> s]

\* the while loop of the RPAREN branch
RECURSIVE PopToLParen(_, _)
PopToLParen(o, s) ==
    IF s # <<>> /\ Top(s).kind # "LPAREN"
    THEN PopToLParen(Append(o, Top(s)), Pop(s))
    ELSE [out |-> o, stack |-> s]

\* the action of a closing parenthesis on out and stack
CloseParen(o, s) ==
    LET r == PopToLParen(o, s) IN
    IF r.stack = <<>> \/ Top(r.stack).kind # "LPAREN"
    THEN [out |-> r.out, stack |-> r.stack,
          err |-> Err("SyntaxError", "Mismatched parentheses", "")]
    ELSE [out |-> r.out, stack |-> Pop(r.stack), err |-> NoErr]

\* RpnToken whose last branch emits the token instead of raising
RpnTokenLax(t, o, s) ==
    IF t.kind = "OP" THEN
        LET r == PopOps(t.value, o, s) IN
        [out |-> r.out, stack |-> Append(r.stack, t), err |-> NoErr]
    ELSE IF t.kind = "LPAREN" THEN
        [out |-> o, stack |-> Append(s, t), err |-> NoErr]
    ELSE IF t.kind = "RPAREN" THEN CloseParen(o, s)
    ELSE [out |-> Append(o, t), stack |-> s, err |-> NoErr]

\* the body of to_rpn's for loop on token t
RpnToken(t, o, s) ==
    IF t.kind \in {"NUM", "ID"} THEN
        [out |-> Append(o, t), stack |-> s, err |-> NoErr]
    ELSE IF t.kind = "OP" THEN
        LET r == PopOps(t.value, o, s) IN
        [out |-> r.out, stack |-> Append(r.stack, t), err |-> NoErr]
    ELSE IF t.kind = "LPAREN" THEN
        [out |-> o, stack |-> Append(s, t), err |-> NoErr]
    ELSE IF t.kind = "RPAREN" THEN CloseParen(o, s)
    ELSE [out |-> o, stack |-> s,
          err |-> Err("SyntaxError", "Unexpected token in expression", t.kind)]

\* Drain without the parenthesis check
RECURSIVE DrainAll(_, _)
DrainAll(o, s) ==
    IF s = <<>> THEN [out |-> o, stack |-> s, err |-> NoErr]
    ELSE DrainAll(Append(o, Top(s)), Pop(s))

\* the final while loop of to_rpn
RECURSIVE Drain(_, _)
Drain(o, s) ==
    IF s = <<>> THEN [out |-> o, stack |-> s, err |-> NoErr]
    ELSE IF Top(s).kind \in {"LPAREN", "RPAREN"}
    THEN [out |-> o, stack |-> s,
          err |-> Err("SyntaxError", "Mismatched parentheses", "")]
    ELSE Drain(Append(o, Top(s)), Pop(s))

RECURSIVE RpnLoop(_, _, _, _)
RpnLoop(toks, i, o, s) ==
    IF i > Len(toks) THEN Drain(o, s)
    ELSE LET r == RpnToken(toks[i], o, s) IN
         IF r.err # NoErr THEN r ELSE RpnLoop(toks, i + 1, r.out, r.stack)

\* to_rpn(tokens): [out, stack, err]; out is the RPN when err = NoErr
to_rpn(toks) == RpnLoop(toks, 1, <<>>, <<>>)

-----------------------------------------------------------------------------
(* 4) Evaluator                                                            *)

NotEnough == Err("SyntaxError", "Not enough values in expression", "")
NotSingle == Err("SyntaxError",
                 "Expression did not reduce to a single value", "")

\* EvalToken that reads an unbound name as 0, as env.get(name, 0) would
EvalTokenDefault(t, stk, e) ==
    IF t.kind = "NUM" THEN [st |-> Append(stk, PyInt(int(t.value))), err |-> NoErr]
    ELSE IF t.kind = "ID" THEN
        [st |-> Append(stk, IF t.value \in DOMAIN e THEN e[t.value] ELSE PyInt(0)),
         err |-> NoErr]
    ELSE IF t.kind = "OP" THEN
        IF stk = <<>> THEN [st |-> stk, err |-> NotEnough]
        ELSE IF Len(stk) = 1 THEN [st |-> Pop(stk), err |-> NotEnough]
        ELSE LET r == Apply(t.value, Top(Pop(stk)), Top(stk)) IN
             IF r.err # NoErr THEN [st |-> Pop(Pop(stk)), err |-> r.err]
             ELSE [st |-> Append(Pop(Pop(stk)), r.val), err |-> NoErr]
    ELSE [st |-> stk, err |-> Err("SyntaxError", "Unexpected token in RPN", t.kind)]

\* the body of eval_rpn's for loop on token t: [st, err]
EvalToken(t, stk, e) ==
    IF t.kind = "NUM" THEN [st |-> Append(stk, PyInt(int(t.value))), err |-> NoErr]
    ELSE IF t.kind = "ID" THEN
        IF t.value \notin DOMAIN e
        THEN [st |-> stk, err |-> Err("NameError", "Undefined variable", t.value)]
        ELSE [st |-> Append(stk, e[t.value]), err |-> NoErr]
    ELSE IF t.kind = "OP" THEN
        \* b = pop_num(); a = pop_num()
        IF stk = <<>> THEN [st |-> stk, err |-> NotEnough]
        ELSE IF Len(stk) = 1 THEN [st |-> Pop(stk), err |-> NotEnough]
        ELSE LET b == Top(stk)
                 a == Top(Pop(stk))
                 r == Apply(t.value, a, b)
             IN  IF r.err # NoErr THEN [st |-> Pop(Pop(stk)), err |-> r.err]
                 ELSE [st |-> Append(Pop(Pop(stk)), r.val), err |-> NoErr]
    ELSE [st |-> stk, err |-> Err("SyntaxError", "Unexpected token in RPN", t.kind)]

\* the end of eval_rpn: exactly one value must be left
EvalEnd(stk) == IF Len(stk) # 1 THEN Raise(NotSingle) ELSE Val(stk[1])

RECURSIVE EvalLoop(_, _, _, _)
EvalLoop(rpn, i, stk, e) ==
    IF i > Len(rpn) THEN EvalEnd(stk)
    ELSE LET r == EvalToken(rpn[i], stk, e) IN
         IF r.err # NoErr THEN Raise(r.err) ELSE EvalLoop(rpn, i + 1, r.st, e)

\* eval_rpn(rpn, env): [val, err]
eval_rpn(rpn, e) == EvalLoop(rpn, 1, <<>>, e)

\* eval_expr(expr, env): [val, err]
eval_expr(expr, e) ==
    LET tk == tokenize_expr(expr) IN
    IF tk.err # NoErr THEN Raise(tk.err)
    ELSE LET r == to_rpn(tk.tokens) IN
         IF r.err # NoErr THEN Raise(r.err) ELSE eval_rpn(r.out, e)

-----------------------------------------------------------------------------
(* to_rpn and eval_rpn as a machine: one step per loop iteration           *)

EmptyEnv == [n \in {} |-> PyInt(0)]

\* the environment token sequences are evaluated in: x is the int -1
ExprEnv == [n \in {"x"} |-> PyInt(-1)]

NoApp == [op |-> "", a |-> PyInt(0), b |-> PyInt(0), r |-> Val(PyInt(0))]

\* run_dsl is not running
RunIdle ==
    /\ output = <<>>
    /\ lineno = 0
    /\ status = "idle"
    /\ raised = NoErr
    /\ line = <<>>
    /\ prevEnv = EmptyEnv
    /\ log = <<>>

InitExpr ==
    /\ env = ExprEnv
    /\ RunIdle
    /\ tokens = <<>>
    /\ out = <<>>
    /\ stack = <<>>
    /\ pc = "rpn"
    /\ rpos = 0
    /\ st = <<>>
    /\ app = NoApp
    /\ exc = NoErr

\* to_rpn's for loop takes the next token t of its input
Consume(t) ==
    /\ pc = "rpn"
    /\ LET r == RpnToken(t, out, stack) IN
        /\ tokens' = Append(tokens, t)
        /\ out' = r.out
        /\ stack' = r.stack
        /\ exc' = r.err
        /\ pc' = IF r.err # NoErr THEN "rpn_raised" ELSE "rpn"
    /\ UNCHANGED <<rpos, st, app>>
    /\ UNCHANGED runVars

\* the input is exhausted: to_rpn drains the stack and returns, and
\* eval_rpn starts on the result
EndOfTokens ==
    /\ pc = "rpn"
    /\ LET r == Drain(out, stack) IN
        /\ out' = r.out
        /\ stack' = r.stack
        /\ exc' = r.err
        /\ pc' = IF r.err # NoErr THEN "rpn_raised" ELSE "eval"
    /\ UNCHANGED <<tokens, rpos, st, app>>
    /\ UNCHANGED runVars

\* eval_rpn's for loop takes the next RPN token
EvalStep ==
    /\ pc = "eval"
    /\ rpos < Len(out)
    /\ LET t == out[rpos + 1]
           r == EvalToken(t, st, env)
       IN
        /\ rpos' = rpos + 1
        /\ st' = r.st
        /\ exc' = r.err
        /\ pc' = IF r.err # NoErr THEN "eval_raised" ELSE "eval"
        /\ app' = IF t.kind = "OP" /\ Len(st) >= 2
                  THEN [op |-> t.value, a |-> Top(Pop(st)), b |-> Top(st),
                        r |-> Apply(t.value, Top(Pop(st)), Top(st))]
                  ELSE NoApp
    /\ UNCHANGED <<tokens, out, stack>>
    /\ UNCHANGED runVars

\* eval_rpn's loop is over: it returns st[0] or raises
EvalReturn ==
    /\ pc = "eval"
    /\ rpos = Len(out)
    /\ LET r == EvalEnd(st) IN
        /\ exc' = r.err
        /\ pc' = IF r.err # NoErr THEN "eval_raised" ELSE "done"
    /\ UNCHANGED <<tokens, out, stack, rpos, st, app>>
    /\ UNCHANGED runVars

\* ---- arbitrary token sequences ----
AnyTokens ==
    {Token("NUM", "0"), Token("ID", "x"), Token("OP", "/"),
     Token("OP", "**"), Token("LPAREN", "("), Token("RPAREN", ")"),
     Token("EQ", "=")}

FeedAny == \E t \in AnyTokens : Len(tokens) < MaxTokens /\ Consume(t)

NextRpn == FeedAny \/ EndOfTokens \/ EvalStep \/ EvalReturn

SpecRpn == InitExpr /\ [][NextRpn]_vars

\* ---- infix expressions ----
InfixTokens ==
    {Token("NUM", "0"), Token("NUM", "1"), Token("NUM", "2"),
     Token("ID", "x"), Token("OP", "+"), Token("OP", "-"), Token("OP", "*"),
     Token("OP", "/"), Token("OP", "**"),
     Token("LPAREN", "("), Token("RPAREN", ")")}

Count(toks, kind) == Cardinality({i \in DOMAIN toks : toks[i].kind = kind})
Depth(toks) == Count(toks, "LPAREN") - Count(toks, "RPAREN")
\* an operand (or an opening parenthesis) must come next
WantsOperand(toks) ==
    toks = <<>> \/ toks[Len(toks)].kind \in {"OP", "LPAREN"}
\* t may follow toks in an infix expression
Fits(toks, t) ==
    IF WantsOperand(toks) THEN t.kind \in {"NUM", "ID", "LPAREN"}
    ELSE t.kind = "OP" \/ (t.kind = "RPAREN" /\ Depth(toks) > 0)
\* toks is a whole infix expression
Complete(toks) == ~WantsOperand(toks) /\ Depth(toks) = 0

FeedInfix ==
    \E t \in InfixTokens :
        Len(tokens) < MaxInfix /\ Fits(tokens, t) /\ Consume(t)

EndOfInfix == Complete(tokens) /\ EndOfTokens

NextInfix == FeedInfix \/ EndOfInfix \/ EvalStep \/ EvalReturn

SpecInfix == InitExpr /\ [][NextInfix]_vars

-----------------------------------------------------------------------------
(* 5) Statement runner                                                     *)

PrintKw == <<"p","r","i","n","t"," ">>

\* how run_dsl reads one raw line: the branch it takes, with the target
\* name and the expression text where the branch has them
Statement(raw) ==
    LET ln == strip(raw)
        none == <<>>
    IN
    IF ln = <<>> \/ startswith(ln, <<"#">>)
    THEN [kind |-> "skip", name |-> none, expr |-> none]
    ELSE IF startswith(lower(ln), PrintKw)
    THEN [kind |-> "print", name |-> none, expr |-> strip(From(ln, 6))]
    ELSE IF FirstEq(ln) # 0 THEN
        LET i == FirstEq(ln)
            name == strip(Upto(ln, i - 1))
        IN  IF ~IsIdentifier(name)
            THEN [kind |-> "badname", name |-> name, expr |-> none]
            ELSE [kind |-> "assign", name |-> name, expr |-> strip(From(ln, i))]
    ELSE [kind |-> "unknown", name |-> none, expr |-> ln]

\* Store that keeps the value a name already has, as env.setdefault would
StoreIfAbsent(e, name, val) ==
    [n \in DOMAIN e \cup {name} |-> IF n \in DOMAIN e THEN e[n] ELSE val]

\* env[name] = val
Store(e, name, val) ==
    [n \in DOMAIN e \cup {name} |-> IF n = name THEN val ELSE e[n]]

\* Propagate of a loop body that swallows the exception and goes on
PropagateNone(e) == "running"

\* run_dsl catches nothing: an exception of a line ends the call
Propagate(e) == IF e # NoErr THEN "raised" ELSE "running"

\* the program text, line by line: the lines a program is made of
Lines ==
    {
     \* ''
     <<>>,
     \* '# note'
     <<"#"," ","n","o","t","e">>,
     \* 'x = five'
     <<"x"," ","="," ","f","i","v","e">>,
     \* 'x = x plus one'
     <<"x"," ","="," ","x"," ","p","l","u","s"," ","o","n","e">>,
     \* 'X = two'
     <<"X"," ","="," ","t","w","o">>,
     \* 'x = y'
     <<"x"," ","="," ","y">>,
     \* 'print x'
     <<"p","r","i","n","t"," ","x">>,
     \* 'PRINT X plus x'
     <<"P","R","I","N","T"," ","X"," ","p","l","u","s"," ","x">>,
     \* 'print\tfive'
     <<"p","r","i","n","t","\t","f","i","v","e">>,
     \* 'Ten = two'
     <<"T","e","n"," ","="," ","t","w","o">>,
     \* 'print Ten'
     <<"p","r","i","n","t"," ","T","e","n">>,
     \* 'plus = three'
     <<"p","l","u","s"," ","="," ","t","h","r","e","e">>,
     \* 'print one divided_by zero plus y'
     <<"p","r","i","n","t"," ","o","n","e"," ","d","i","v","i","d","e","d","_","b","y"," ","z","e","r","o"," ","p","l","u","s"," ","y">>,
     \* 'print ( y'
     <<"p","r","i","n","t"," ","("," ","y">>,
     \* 'foo bar'
     <<"f","o","o"," ","b","a","r">>,
     \* '2x = one'
     <<"2","x"," ","="," ","o","n","e">>,
     \* '  print  x power two  '
     <<" "," ","p","r","i","n","t"," "," ","x"," ","p","o","w","e","r"," ","t","w","o"," "," ">>
    }

Init ==
    /\ env = EmptyEnv
    /\ output = <<>>
    /\ lineno = 0
    /\ status = "running"
    /\ raised = NoErr
    /\ line = <<>>
    /\ prevEnv = EmptyEnv
    /\ log = <<>>
    /\ tokens = <<>>
    /\ out = <<>>
    /\ stack = <<>>
    /\ pc = "idle"
    /\ rpos = 0
    /\ st = <<>>
    /\ app = NoApp
    /\ exc = NoErr

\* the loop of run_dsl takes the next line l of the program
Takes(l) ==
    /\ status = "running"
    /\ lineno < MaxLines
    /\ lineno' = lineno + 1
    /\ line' = l
    /\ prevEnv' = env
    /\ UNCHANGED exprVars

\* a blank line or a comment
SkipLine(l) ==
    /\ Takes(l)
    /\ Statement(l).kind = "skip"
    /\ UNCHANGED <<env, output, status, raised, log>>

\* print <expr>
PrintLine(l) ==
    /\ Takes(l)
    /\ Statement(l).kind = "print"
    /\ LET r == eval_expr(Statement(l).expr, env) IN
        /\ raised' = r.err
        /\ status' = Propagate(r.err)
        /\ output' = IF r.err = NoErr THEN Append(output, r.val) ELSE output
    /\ UNCHANGED <<env, log>>

\* <name> = <expr>
AssignLine(l) ==
    /\ Takes(l)
    /\ Statement(l).kind = "assign"
    /\ LET name == Join(Statement(l).name)
           r == eval_expr(Statement(l).expr, env)
       IN
        /\ raised' = r.err
        /\ status' = Propagate(r.err)
        /\ env' = IF r.err = NoErr THEN Store(env, name, r.val) ELSE env
        /\ log' = IF r.err = NoErr
                  THEN Append(log, <<lineno + 1, name, r.val>>)
                  ELSE log
    /\ UNCHANGED output

\* a line that is no statement: a bad target name, or neither form
RejectLine(l) ==
    /\ Takes(l)
    /\ Statement(l).kind \in {"badname", "unknown"}
    /\ LET e == IF Statement(l).kind = "badname"
                THEN Err("SyntaxError", "Invalid variable name",
                         Join(Statement(l).name))
                ELSE Err("SyntaxError", "Unknown statement",
                         Join(Statement(l).expr))
       IN
        /\ raised' = e
        /\ status' = Propagate(e)
    /\ UNCHANGED <<env, output, log>>

\* the program has no more lines: run_dsl returns env
Return ==
    /\ status = "running"
    /\ status' = "returned"
    /\ UNCHANGED <<env, output, lineno, raised, line, prevEnv, log>>
    /\ UNCHANGED exprVars

Next ==
    \/ \E l \in Lines : SkipLine(l)
    \/ \E l \in Lines : PrintLine(l)
    \/ \E l \in Lines : AssignLine(l)
    \/ \E l \in Lines : RejectLine(l)
    \/ Return

Spec == Init /\ [][Next]_vars

-----------------------------------------------------------------------------
(* Properties of to_rpn and eval_rpn                                       *)

\* to_rpn has returned normally (eval_rpn has the RPN)
ToRpnReturned == pc \in {"eval", "eval_raised", "done"}
\* eval_rpn has ended, by return or by exception
EvalEnded == pc \in {"eval_raised", "done"}

\* toks is an infix expression: operands and binary operators alternate and
\* the parentheses are balanced
WellFormed(toks) ==
    /\ \A i \in DOMAIN toks : Fits(SubSeq(toks, 1, i - 1), toks[i])
    /\ Complete(toks)

\* the parentheses of toks are balanced
NegativePrefix(toks) ==
    \E i \in DOMAIN toks : Depth(SubSeq(toks, 1, i)) < 0
Balanced(toks) == Depth(toks) = 0 /\ ~NegativePrefix(toks)

Malformed == {NotEnough, NotSingle}

\* ---- the value of the expression tree, by precedence climbing ----
TreePrec(op) ==
    CASE op = "**" -> 3
      [] op \in {"*", "/"} -> 2
      [] op \in {"+", "-"} -> 1
TreeRightToLeft(op) == op = "**"

\* the left operand is evaluated first, then the right one, then the operator
TreeApply(op, l, r) ==
    IF l.err # NoErr THEN l
    ELSE IF r.err # NoErr THEN r
    ELSE Apply(op, l.val, r.val)

TreeLeaf(t, e) ==
    IF t.kind = "NUM" THEN Val(PyInt(int(t.value)))
    ELSE IF t.value \in DOMAIN e THEN Val(e[t.value])
    ELSE Raise(Err("NameError", "Undefined variable", t.value))

RECURSIVE TreeExpr(_, _, _, _)
RECURSIVE TreeRest(_, _, _, _, _)

\* a number, a name or a parenthesised expression at pos
TreePrimary(toks, pos, e) ==
    IF toks[pos].kind = "LPAREN"
    THEN LET r == TreeExpr(toks, pos + 1, 1, e) IN
         [res |-> r.res, pos |-> r.pos + 1]
    ELSE [res |-> TreeLeaf(toks[pos], e), pos |-> pos + 1]

\* the expression at pos made of operators of precedence >= minp
TreeExpr(toks, pos, minp, e) ==
    LET l == TreePrimary(toks, pos, e) IN
    TreeRest(toks, l.res, l.pos, minp, e)

TreeRest(toks, lhs, pos, minp, e) ==
    IF pos <= Len(toks) /\ toks[pos].kind = "OP"
       /\ TreePrec(toks[pos].value) >= minp
    THEN LET op == toks[pos].value
             r == TreeExpr(toks, pos + 1,
                           IF TreeRightToLeft(op) THEN TreePrec(op)
                           ELSE TreePrec(op) + 1, e)
         IN  TreeRest(toks, TreeApply(op, lhs, r.res), r.pos, minp, e)
    ELSE [res |-> lhs, pos |-> pos]

TreeValue(toks, e) == TreeExpr(toks, 1, 1, e).res

\* C1: for every well-formed infix expression, eval_rpn(to_rpn(tokens)) ends
\* as the evaluation of the expression tree does (precedence ** over * / over
\* + -, ** grouping right to left, the others left to right): with the same
\* value, or with the same exception.
C1_RpnEqualsTree ==
    (EvalEnded /\ WellFormed(tokens)) =>
        LET ref == TreeValue(tokens, env) IN
        IF pc = "done" THEN ref = Val(st[1]) ELSE ref.err = exc

\* C1 witness: 2 ** x ** 2 with x = -1 has been evaluated to 2 ** ((-1) ** 2),
\* which is 2, where (2 ** -1) ** 2 is 0.25
C1_Witness ==
    /\ pc = "done"
    /\ tokens = <<Token("NUM", "2"), Token("OP", "**"), Token("ID", "x"),
                  Token("OP", "**"), Token("NUM", "2")>>
    /\ st = <<PyInt(2)>>

\* C2: in every state of to_rpn, out holds only NUM, ID and OP tokens and
\* the stack only OP and LPAREN tokens; so does the RPN it returns.
C2_KindsInvariant ==
    /\ \A i \in DOMAIN out : out[i].kind \in {"NUM", "ID", "OP"}
    /\ \A i \in DOMAIN stack : stack[i].kind \in {"OP", "LPAREN"}

\* C2 witness: to_rpn returned an RPN for an input with parentheses
C2_Witness ==
    /\ pc = "eval"
    /\ Count(tokens, "LPAREN") > 0
    /\ Count(tokens, "RPAREN") > 0
    /\ Len(out) >= 3

\* C6: to_rpn raises SyntaxError on every input whose parentheses are
\* unbalanced (at the RPAREN that has no LPAREN, or at the end of the input
\* with an LPAREN unclosed), and never raises "Mismatched parentheses" on an
\* input whose parentheses are balanced.
C6_Parentheses ==
    /\ NegativePrefix(tokens) => pc = "rpn_raised"
    /\ (pc # "rpn" /\ ~Balanced(tokens)) =>
            (pc = "rpn_raised" /\ exc.type = "SyntaxError")
    /\ Balanced(tokens) => exc.msg # "Mismatched parentheses"

\* C6 witness: the input ended with an LPAREN unclosed and to_rpn raised
C6_Witness ==
    /\ pc = "rpn_raised"
    /\ exc.msg = "Mismatched parentheses"
    /\ Depth(tokens) > 0
    /\ Count(tokens, "EQ") = 0

\* C8 as stated: whenever to_rpn accepts its input, eval_rpn raises neither
\* "Not enough values in expression" nor "Expression did not reduce to a
\* single value".
C8_AcceptedNeverMalformed ==
    ToRpnReturned => exc \notin Malformed

\* C8 amended: on a well-formed infix expression eval_rpn raises neither
\* malformed-expression error, never pops an empty stack, and returns with
\* exactly one value on the stack.
C8_WellFormedNeverMalformed ==
    (ToRpnReturned /\ WellFormed(tokens)) =>
        /\ exc \notin Malformed
        /\ pc = "done" => Len(st) = 1
        /\ (pc = "eval" /\ rpos < Len(out) /\ out[rpos + 1].kind = "OP")
                => Len(st) >= 2

\* C8 witness: a well-formed expression with two operators has been evaluated
C8_Witness ==
    /\ pc = "done"
    /\ WellFormed(tokens)
    /\ Count(tokens, "OP") = 2

\* C9 as stated: when eval_rpn applies + - * or ** to two integral operands
\* the result is integral.
C9_IntegralClosed ==
    (/\ app.op \in {"+", "-", "*", "**"}
     /\ IsIntegral(app.a) /\ IsIntegral(app.b)
     /\ app.r.err = NoErr)
        => IsIntegral(app.r.val)

\* C9 amended: on two ints, + - * give an int; ** gives an int when the
\* exponent is >= 0 and, when it is negative, a float (ZeroDivisionError for
\* base 0); so / and ** with a negative exponent are what leaves the ints.
\* The value pushed is that result.
C9_IntClosedButNegativePower ==
    (app.op # "" /\ app.a.int /\ app.b.int) =>
        /\ app.op \in {"+", "-", "*"} =>
                (app.r.err = NoErr /\ app.r.val.int)
        /\ (app.op = "**" /\ app.b.n >= 0) =>
                (app.r.err = NoErr /\ app.r.val.int)
        /\ (app.op = "**" /\ app.b.n < 0) =>
                IF app.a.n = 0 THEN app.r.err.type = "ZeroDivisionError"
                ELSE app.r.err = NoErr /\ ~app.r.val.int
        /\ (app.r.err = NoErr /\ ~app.r.val.int) =>
                (app.op = "/" \/ (app.op = "**" /\ app.b.n < 0))
        /\ app.r.err = NoErr => (st # <<>> /\ Top(st) = app.r.val)

\* C9 witness: 2 ** (0 - 1), written with parentheses, gave the float 0.5
C9_Witness ==
    /\ app.op = "**"
    /\ app.a = PyInt(2)
    /\ app.b = PyInt(-1)
    /\ app.r = Val(PyFloat(1, 2))
    /\ Count(tokens, "LPAREN") = 1
    /\ Count(tokens, "ID") = 0

-----------------------------------------------------------------------------
(* Properties of run_dsl                                                   *)

IsPrefix(a, b) == Len(a) <= Len(b) /\ SubSeq(b, 1, Len(a)) = a

\* the statement of the line the last iteration consumed
Last == Statement(line)
\* the last iteration evaluated an expression
Evaluated == lineno > 0 /\ Last.kind \in {"print", "assign"}

\* line l, run in environment e, raises
LineFails(l, e) ==
    \/ Statement(l).kind \in {"badname", "unknown"}
    \/ /\ Statement(l).kind \in {"print", "assign"}
       /\ eval_expr(Statement(l).expr, e).err # NoErr

\* C3: run_dsl halts at the first line that raises: the failing line changes
\* neither env nor the output (a failing assignment stores nothing), nothing
\* is printed or assigned after it, and what was printed before stays.
C3_HaltsAtFirstError ==
    [][/\ (lineno' = lineno + 1 /\ LineFails(line', env)) =>
            (/\ status' = "raised"
             /\ raised' # NoErr
             /\ env' = env /\ output' = output /\ log' = log)
       /\ status = "raised" => UNCHANGED <<env, output, lineno, log>>
       /\ IsPrefix(output, output')]_vars

\* C3 witness: the third line, an assignment, raised after an assignment and
\* a print went through
C3_Witness ==
    /\ status = "raised"
    /\ lineno = 3
    /\ Last.kind = "assign"
    /\ Len(output) = 1
    /\ Len(log) = 1

\* the environment a log of stores amounts to: last write wins
LogNames == {log[i][2] : i \in DOMAIN log}
LastWrite(n) ==
    log[CHOOSE i \in DOMAIN log :
            log[i][2] = n /\ \A j \in DOMAIN log : log[j][2] = n => j <= i][3]

\* C4: env's keys are exactly the names assigned so far, each with the value
\* of its latest assignment; every successful assignment is one such store;
\* blank, comment and print lines leave env as it is; a call starts empty.
C4_EnvIsLastWrites ==
    /\ DOMAIN env = LogNames
    /\ \A n \in DOMAIN env : env[n] = LastWrite(n)
    /\ lineno = 0 => env = EmptyEnv
    /\ \A i \in DOMAIN log : log[i][1] <= lineno
    /\ (lineno > 0 /\ Last.kind \in {"skip", "print"}) =>
            (env = prevEnv /\ \A i \in DOMAIN log : log[i][1] < lineno)
    /\ (lineno > 0 /\ Last.kind = "assign" /\ raised = NoErr) =>
            (/\ log # <<>>
             /\ log[Len(log)] = <<lineno, Join(Last.name),
                                  eval_expr(Last.expr, prevEnv).val>>
             /\ \A i \in 1..(Len(log) - 1) : log[i][1] < lineno)

\* C4 witness: a name was assigned twice, with different values
C4_Witness ==
    /\ Len(log) = 2
    /\ log[1][2] = log[2][2]
    /\ log[1][3] # log[2][3]
    /\ env[log[2][2]] = log[2][3]

\* the names an earlier line assigned, and the names the last expression
\* references (its ID tokens, in order)
AssignedBefore == {log[i][2] : i \in {j \in DOMAIN log : log[j][1] < lineno}}
LastTokens == tokenize_expr(Last.expr).tokens
Unassigned ==
    {i \in DOMAIN LastTokens :
        LastTokens[i].kind = "ID" /\ LastTokens[i].value \notin AssignedBefore}
FirstUnassigned ==
    LastTokens[CHOOSE i \in Unassigned : \A j \in Unassigned : i <= j].value

\* C5 as stated: an expression that references an identifier fails with the
\* NameError carrying that name exactly when no earlier line assigned it.
C5_NameErrorIffUnassigned ==
    Evaluated =>
        \A i \in DOMAIN LastTokens :
            LastTokens[i].kind = "ID" =>
                (raised = Err("NameError", "Undefined variable",
                              LastTokens[i].value)
                    <=> LastTokens[i].value \notin AssignedBefore)

\* C5 amended: an expression that references a name no earlier line assigned
\* (case-sensitively) fails: with the NameError carrying the first such name,
\* unless a SyntaxError or a ZeroDivisionError is raised before that name is
\* reached, which a well-formed expression without divided_by and power never
\* does.  No NameError is raised when every name has been assigned.
C5_UnassignedNameFails ==
    Evaluated =>
        /\ Unassigned # {} =>
            \/ raised = Err("NameError", "Undefined variable", FirstUnassigned)
            \/ raised.type \in {"SyntaxError", "ZeroDivisionError"}
        /\ Unassigned = {} => raised.type # "NameError"
        /\ (/\ Unassigned # {}
            /\ tokenize_expr(Last.expr).err = NoErr
            /\ WellFormed(LastTokens)
            /\ \A i \in DOMAIN LastTokens :
                    LastTokens[i].value \notin {"/", "**"}) =>
                raised = Err("NameError", "Undefined variable", FirstUnassigned)

\* C5 witness: x is assigned and "PRINT X plus x" raised NameError for X
C5_Witness ==
    /\ "x" \in DOMAIN env
    /\ Last.kind = "print"
    /\ raised = Err("NameError", "Undefined variable", "X")

\* the trimmed line is the keyword print, in any case, and a whitespace
IsPrintStatement(raw) ==
    LET ln == strip(raw) IN
    /\ Len(ln) >= 6
    /\ lower(Upto(ln, 5)) = <<"p","r","i","n","t">>
    /\ IsSpace(ln[6])

\* C7: a line that starts with print, in any case, followed by a whitespace
\* character is executed as a print statement: never rejected as an unknown
\* statement or a bad name, never an assignment; its value is what is emitted.
C7_PrintAnyWhitespace ==
    (lineno > 0 /\ IsPrintStatement(line)) =>
        /\ raised.msg \notin {"Unknown statement", "Invalid variable name"}
        /\ env = prevEnv
        /\ raised = NoErr =>
            (output # <<>> /\
             Top(output) = eval_expr(strip(From(strip(line), 6)), prevEnv).val)

\* a target name that lower() makes a number word or an operator word
IsVocabulary(name) ==
    Join(lower(name)) \in DOMAIN NUM_WORDS \cup DOMAIN OP_WORDS
VocabularyNames ==
    {Join(Statement(l).name) :
        l \in {k \in Lines : Statement(k).kind = "assign"
                             /\ IsVocabulary(Statement(k).name)}}
\* e without the names of the vocabulary
WithoutVocabulary(e) == [n \in DOMAIN e \ VocabularyNames |-> e[n]]

\* C10: an assignment to a name of the vocabulary is accepted and stored, and
\* the stored value is never read: every expression ends as it would in the
\* environment without those names.
C10_VocabularyNamesUnread ==
    /\ (lineno > 0 /\ Last.kind = "assign" /\ IsVocabulary(Last.name)
        /\ eval_expr(Last.expr, WithoutVocabulary(prevEnv)).err = NoErr) =>
            (/\ raised = NoErr
             /\ Join(Last.name) \in DOMAIN env
             /\ env[Join(Last.name)] =
                    eval_expr(Last.expr, WithoutVocabulary(prevEnv)).val)
    /\ Evaluated =>
        LET r == eval_expr(Last.expr, WithoutVocabulary(prevEnv)) IN
        /\ raised = r.err
        /\ (Last.kind = "print" /\ raised = NoErr) =>
                (output # <<>> /\ Top(output) = r.val)
        /\ (Last.kind = "assign" /\ raised = NoErr) =>
                env[Join(Last.name)] = r.val

\* C10 witness: Ten was assigned 2 and "print Ten" printed 10
C10_Witness ==
    /\ "Ten" \in DOMAIN env
    /\ env["Ten"] = PyInt(2)
    /\ Last.kind = "print"
    /\ Join(Last.expr) = "Ten"
    /\ output # <<>>
    /\ Top(output) = PyInt(10)

=============================================================================
